---------------------------- MODULE Spec2Model ----------------------------
(***************************************************************************)
(* Mesh coordination of the peer-to-peer group call in                     *)
(* zoomInfinity/src/components/Main.tsx.                                    *)
(*                                                                         *)
(* Every client runs one App component.  The peer network service (PeerJS) *)
(* is the environment: it registers identities, carries media calls and    *)
(* signaling messages, and delivers events to the handlers the component   *)
(* registered.  Handlers run to completion, so each handler is one action. *)
(***************************************************************************)
EXTENDS Integers, Sequences, FiniteSets, TLC

\* ------------------------------------------------------------------ bounds
NumClients == 3     \* browser tabs that may take part in the mesh
MaxJoins == 3       \* join() calls in a run with leaves and failures
MaxFaults == 1      \* failures the environment raises in such a run
SessionClients == 2 \* clients that take part in such a run
MaxCalls == 1       \* calls placed by participants outside the model
MaxTracks == 3      \* video tracks a client acquires in a run with media actions
MaxList == 2        \* length of the peer lists a Guest is handed

Clients == 1..NumClients

\* ------------------------------------------------------------- identities
Room == 0           \* the room name, the identity the Host registers
NoId == -1          \* myId before any registration opened ("")
NoClient == 0

\* the service-generated identity of client c's n-th join attempt
GenId(c, n) == (n - 1) * NumClients + c

Ids == 0..(MaxJoins * NumClients)

VARIABLES
  pc,             \* position of join(): "idle" | "media" | "hostReg" | "guestReg"
  pc2,            \* <<position, startWithVideo>> of a join() started while that one
                  \* is still in progress
  wantVideo,      \* startWithVideo as captured by the join() awaiting getUserMedia
  sess,           \* number of join() calls started by the client
  joined,         \* useState joined
  myId,           \* useState myId
  curId,          \* the identity the Peer in peerRef.current was created for
  peerRef,        \* peerRef.current: "null" | "pending" | "open" | "error" | "destroyed"
  callsRef,       \* callsRef.current: Map<peerId, MediaConnection> as a set of <<peerId, handle>>
  peers,          \* useState peers: Map<peerId, MediaStream> as a set of <<peerId, handle>>
  localStreamRef, \* localStreamRef.current: "null" | "live" | "stopped"
  localStream,    \* useState localStream: "null" | "set"
  videoEnabled, muted, screenSharing,
  audioEnabled,   \* enabled flag of the audio track of localStreamRef.current
  tracks,         \* the video tracks acquired since getUserMedia of join() resolved
  videoTracks,    \* localStreamRef.current.getVideoTracks(), as indices in tracks
  pend,           \* acquisitions awaited by toggleVideo, startScreenShare, stopScreenShare
  senders,        \* video senders of the client's connections: <<handle, tracks sent>>
  alert,          \* the last alert() shown: <<join attempt, message>>
  effects,        \* the external calls made by the last leave(), in order
  reg,            \* the service: identity -> client holding the registration
  calls,          \* every media call placed so far, both ends
  timers,         \* pending settle timers of the Host (setTimeout, line 109)
  msgs,           \* peer-list messages sent and not yet delivered
  faults          \* failures raised by the environment so far

vars == << pc, pc2, curId, wantVideo, sess, joined, myId, peerRef, callsRef, peers,
           localStreamRef, localStream, videoEnabled, muted, screenSharing,
           audioEnabled, tracks, videoTracks, pend, senders,
           alert, effects, reg, calls, timers, msgs, faults >>

clientVars == << pc, pc2, curId, wantVideo, sess, joined, myId, peerRef >>
mediaVars == << localStreamRef, localStream, videoEnabled, muted, screenSharing,
               audioEnabled, tracks, videoTracks, pend >>
meshVars == << callsRef, peers, calls, timers, msgs >>

\* ------------------------------------------------------ Map<peerId, value>
MapKeys(m) == { e[1] : e \in m }
MapHas(m, k) == \E e \in m : e[1] = k
MapGet(m, k) == (CHOOSE e \in m : e[1] = k)[2]
MapSet(m, k, v) == { e \in m : e[1] # k } \cup { <<k, v>> }
MapDelete(m, k) == { e \in m : e[1] # k }

\* --------------------------------------------------------- media calls
\* A call has two MediaConnection objects: end 1 at the caller, end 2 at the
\* callee.  The handle stored in a registry is <<index in calls, end>>.
Caller == 1
Callee == 2
Other(s) == 3 - s

NoEnd == [ hd |-> FALSE, s |-> FALSE, e |-> FALSE, x |-> FALSE, ret |-> "none" ]

\* call.peer as seen from end s
PeerOf(k, s) == IF s = Caller THEN k.to ELSE k.from

\* guest.call(peerId, stream): a new MediaConnection whose offer is in flight
NewCall(c, from, to) ==
  [ from |-> from, to |-> to,
    cl |-> << c, NoClient >>,
    st |-> "offered",
    end |-> << NoEnd, NoEnd >> ]

\* setupCall without the guard of line 53
SetupCall_NoGuard(m, peerId, handle, streamToAnswerWith) ==
  [ calls |-> MapSet(m, peerId, handle),
    answered |-> streamToAnswerWith, handlers |-> TRUE,
    ret |-> "undefined" ]

\* ---------------------------------------------------------------- setupCall
SetupCall(m, peerId, handle, streamToAnswerWith) ==
  IF MapHas(m, peerId)
    THEN [ calls |-> m, answered |-> FALSE, handlers |-> FALSE,
           ret |-> "undefined" ]
    ELSE [ calls |-> MapSet(m, peerId, handle),
           answered |-> streamToAnswerWith, handlers |-> TRUE,
           ret |-> "undefined" ]

\* the end of a call after setupCall ran on it
EndAfterSetup(r) == [ NoEnd EXCEPT !.hd = r.handlers, !.ret = r.ret ]

\* ------------------------------------------------------------ video tracks
\* no toggleVideo, startScreenShare or stopScreenShare awaits an acquisition
\* (start holds, per startScreenShare awaiting getDisplayMedia, the value of
\* screenSharing in the render whose handlers are running)
NoPending == [ toggle |-> 0, start |-> << >>, stop |-> 0 ]

\* a track as getUserMedia or getDisplayMedia hands it out; onended tells
\* whether videoTrack.onended = stopScreenShare was assigned (line 223) and
\* seen is the value of screenSharing in the closure of that stopScreenShare
NewTrack(kind) ==
  [ kind |-> kind, enabled |-> TRUE, stopped |-> FALSE,
    onended |-> FALSE, seen |-> FALSE ]

\* acquisitions are bounded: every awaited one can still be granted
CanAcquire(ts, p) == Len(ts) + p.toggle + Len(p.start) + p.stop < MaxTracks

\* track.stop() on every track of the sequence vt
StopTracks(ts, vt) ==
  [ i \in 1..Len(ts) |->
      IF \E j \in 1..Len(vt) : vt[j] = i THEN [ ts[i] EXCEPT !.stopped = TRUE ]
                                        ELSE ts[i] ]

\* the senders a connection gets for the video tracks of the stream it is
\* placed or answered with (lines 57, 143, 154)
AddSenders(sn, handle, vt) == sn \cup { << handle, vt >> }

\* callsRef.current.forEach: the first video sender of every registered
\* connection gets the track (lines 203-208, 238-243, 267-272); a connection
\* without a video sender is skipped (sender?.replaceTrack)
ReplaceTrack(sn, m, t) ==
  { IF (\E e \in m : e[2] = x[1]) /\ Len(x[2]) > 0
      THEN << x[1], [ x[2] EXCEPT ![1] = t ] >>
      ELSE x : x \in sn }

\* ---------------------------------------------------------------- Init
Init ==
  /\ pc = [c \in Clients |-> "idle"]
  /\ pc2 = [c \in Clients |-> << "idle", FALSE >>]
  /\ curId = [c \in Clients |-> NoId]
  /\ wantVideo = [c \in Clients |-> FALSE]
  /\ sess = [c \in Clients |-> 0]
  /\ joined = [c \in Clients |-> FALSE]
  /\ myId = [c \in Clients |-> NoId]
  /\ peerRef = [c \in Clients |-> "null"]
  /\ callsRef = [c \in Clients |-> {}]
  /\ peers = [c \in Clients |-> {}]
  /\ localStreamRef = [c \in Clients |-> "null"]
  /\ localStream = [c \in Clients |-> "null"]
  /\ videoEnabled = [c \in Clients |-> FALSE]
  /\ muted = [c \in Clients |-> FALSE]
  /\ screenSharing = [c \in Clients |-> FALSE]
  /\ audioEnabled = [c \in Clients |-> FALSE]
  /\ tracks = [c \in Clients |-> << >>]
  /\ videoTracks = [c \in Clients |-> << >>]
  /\ pend = [c \in Clients |-> NoPending]
  /\ senders = [c \in Clients |-> {}]
  /\ alert = [c \in Clients |-> <<0, "none">>]
  /\ effects = [c \in Clients |-> << >>]
  /\ reg = [i \in Ids |-> NoClient]
  /\ calls = << >>
  /\ timers = {}
  /\ msgs = {}
  /\ faults = 0

\* ---------------------------------------------------------------- join
\* join() up to the await of getUserMedia (lines 72-77).  The join button is
\* rendered while joined is false (lines 297, 339).
Join(c, v) ==
  /\ ~joined[c]
  /\ pc[c] = "idle"
  /\ pc' = [pc EXCEPT ![c] = "media"]
  /\ wantVideo' = [wantVideo EXCEPT ![c] = v]
  /\ sess' = [sess EXCEPT ![c] = @ + 1]
  /\ UNCHANGED << curId, pc2, joined, myId, peerRef, mediaVars, senders, alert, effects, reg, meshVars, faults >>

\* getUserMedia resolved: lines 79-123
MediaGranted(c) ==
  /\ pc[c] = "media"
  /\ localStreamRef' = [localStreamRef EXCEPT ![c] = "live"]
  /\ localStream' = [localStream EXCEPT ![c] = "set"]
  /\ videoEnabled' = [videoEnabled EXCEPT ![c] = wantVideo[c]]
  /\ audioEnabled' = [audioEnabled EXCEPT ![c] = TRUE]
  /\ tracks' = [tracks EXCEPT ![c] =
        IF wantVideo[c] THEN << NewTrack("camera") >> ELSE << >>]
  /\ videoTracks' = [videoTracks EXCEPT ![c] =
        IF wantVideo[c] THEN << 1 >> ELSE << >>]
  /\ peerRef' = [peerRef EXCEPT ![c] = "pending"]
  /\ pc' = [pc EXCEPT ![c] = "hostReg"]
  /\ wantVideo' = [wantVideo EXCEPT ![c] = FALSE]
  /\ curId' = [curId EXCEPT ![c] = Room]
  /\ UNCHANGED << pc2, sess, joined, myId, muted, screenSharing, pend, senders,
                  alert, effects, reg, meshVars, faults >>

\* a catch block that reports the failure and goes on to register
MediaDenied_Proceeds(c, errName) ==
  /\ pc[c] = "media"
  /\ alert' = [alert EXCEPT ![c] = << sess[c],
        IF errName \in {"NotAllowedError", "NotFoundError"}
          THEN "Microphone access is required to join the call."
          ELSE "Failed to access microphone/camera. Please check permissions." >>]
  /\ pc' = [pc EXCEPT ![c] = "hostReg"]
  /\ peerRef' = [peerRef EXCEPT ![c] = "pending"]
  /\ wantVideo' = [wantVideo EXCEPT ![c] = FALSE]
  /\ faults' = faults + 1
  /\ curId' = [curId EXCEPT ![c] = Room]
  /\ UNCHANGED << pc2, sess, joined, myId, mediaVars, senders, effects, reg, meshVars >>

\* getUserMedia rejected: the catch block, lines 124-130
MediaDenied(c, errName) ==
  /\ pc[c] = "media"
  /\ alert' = [alert EXCEPT ![c] = << sess[c],
        IF errName \in {"NotAllowedError", "NotFoundError"}
          THEN "Microphone access is required to join the call."
          ELSE "Failed to access microphone/camera. Please check permissions." >>]
  /\ pc' = [pc EXCEPT ![c] = "idle"]
  /\ wantVideo' = [wantVideo EXCEPT ![c] = FALSE]
  /\ faults' = faults + 1
  /\ UNCHANGED << curId, pc2, sess, joined, myId, peerRef, mediaVars, senders, effects, reg, meshVars >>

\* peer.on("open") of the room-identity registration, lines 88-92
HostOpen(c) ==
  /\ pc[c] = "hostReg"
  /\ reg[Room] = NoClient
  /\ reg' = [reg EXCEPT ![Room] = c]
  /\ myId' = [myId EXCEPT ![c] = Room]
  /\ joined' = [joined EXCEPT ![c] = TRUE]
  /\ peerRef' = [peerRef EXCEPT ![c] = "open"]
  /\ pc' = [pc EXCEPT ![c] = "idle"]
  /\ UNCHANGED << curId, pc2, wantVideo, sess, mediaVars, senders, alert, effects, meshVars, faults >>

\* peer.on("error") with type unavailable-id: peer.destroy(); initGuest(stream)
\* (lines 94-97, 134-136, 162)
HostUnavailable(c) ==
  /\ pc[c] = "hostReg"
  /\ reg[Room] # NoClient
  /\ peerRef' = [peerRef EXCEPT ![c] = "pending"]
  /\ pc' = [pc EXCEPT ![c] = "guestReg"]
  /\ curId' = [curId EXCEPT ![c] = GenId(c, sess[c])]
  /\ UNCHANGED << pc2, wantVideo, sess, joined, myId, mediaVars, senders, alert, effects,
                  reg, meshVars, faults >>

\* a guest that calls the Host twice once its registration opened
GuestOpen_CallsTwice(c) ==
  /\ pc[c] = "guestReg"
  /\ LET id == GenId(c, sess[c])
         h == Len(calls) + 1
         r == SetupCall(callsRef[c], Room, <<h, Caller>>, FALSE)
         k == NewCall(c, id, Room)
     IN /\ reg' = [reg EXCEPT ![id] = c]
        /\ myId' = [myId EXCEPT ![c] = id]
        /\ joined' = [joined EXCEPT ![c] = TRUE]
        /\ peerRef' = [peerRef EXCEPT ![c] = "open"]
        /\ pc' = [pc EXCEPT ![c] = "idle"]
        /\ callsRef' = [callsRef EXCEPT ![c] = r.calls]
        /\ calls' = Append(Append(calls, [k EXCEPT !.end[Caller] = EndAfterSetup(r)]), k)
        /\ senders' = [senders EXCEPT ![c] = AddSenders(@, <<h, Caller>>, videoTracks[c])]
  /\ UNCHANGED << curId, pc2, wantVideo, sess, mediaVars, alert, effects, peers, timers, msgs, faults >>

\* guest.on("open"): lines 137-145
GuestOpen(c) ==
  /\ pc[c] = "guestReg"
  /\ LET id == GenId(c, sess[c])
         h == Len(calls) + 1
         r == SetupCall(callsRef[c], Room, <<h, Caller>>, FALSE)
         k == NewCall(c, id, Room)
     IN /\ reg' = [reg EXCEPT ![id] = c]
        /\ myId' = [myId EXCEPT ![c] = id]
        /\ joined' = [joined EXCEPT ![c] = TRUE]
        /\ peerRef' = [peerRef EXCEPT ![c] = "open"]
        /\ pc' = [pc EXCEPT ![c] = "idle"]
        /\ callsRef' = [callsRef EXCEPT ![c] = r.calls]
        /\ calls' = Append(calls, [k EXCEPT !.end[Caller] = EndAfterSetup(r)])
        /\ senders' = [senders EXCEPT ![c] = AddSenders(@, <<h, Caller>>, videoTracks[c])]
  /\ UNCHANGED << curId, pc2, wantVideo, sess, mediaVars, alert, effects, peers, timers, msgs, faults >>

\* ---------------------------------------------------- overlapping join
\* the join button is clicked again while join() is in progress: joined is
\* still false, so the button is still rendered (lines 297, 338-343), and
\* join() has no guard (lines 72-77)
JoinAgain(c, v) ==
  /\ ~joined[c]
  /\ pc[c] # "idle"
  /\ pc2[c][1] = "idle"
  /\ pc2' = [pc2 EXCEPT ![c] = << "media", v >>]
  /\ UNCHANGED << curId, pc, wantVideo, sess, joined, myId, peerRef, mediaVars, senders,
                  alert, effects, reg, meshVars, faults >>

\* getUserMedia of the second join() resolved: lines 79-123
MediaGrantedAgain(c) ==
  /\ pc2[c][1] = "media"
  /\ localStreamRef' = [localStreamRef EXCEPT ![c] = "live"]
  /\ localStream' = [localStream EXCEPT ![c] = "set"]
  /\ videoEnabled' = [videoEnabled EXCEPT ![c] = pc2[c][2]]
  /\ audioEnabled' = [audioEnabled EXCEPT ![c] = TRUE]
  /\ tracks' = [tracks EXCEPT ![c] =
        IF pc2[c][2] THEN << NewTrack("camera") >> ELSE << >>]
  /\ videoTracks' = [videoTracks EXCEPT ![c] =
        IF pc2[c][2] THEN << 1 >> ELSE << >>]
  /\ peerRef' = [peerRef EXCEPT ![c] = "pending"]
  /\ pc2' = [pc2 EXCEPT ![c] = << "hostReg", FALSE >>]
  /\ curId' = [curId EXCEPT ![c] = Room]
  /\ UNCHANGED << pc, wantVideo, sess, joined, myId, muted, screenSharing, pend,
                  senders, alert, effects, reg, meshVars, faults >>

\* peer.on("open") of the room-identity registration of the second join()
HostOpenAgain(c) ==
  /\ pc2[c][1] = "hostReg"
  /\ reg[Room] = NoClient
  /\ reg' = [reg EXCEPT ![Room] = c]
  /\ myId' = [myId EXCEPT ![c] = Room]
  /\ joined' = [joined EXCEPT ![c] = TRUE]
  /\ peerRef' = [peerRef EXCEPT ![c] = "open"]
  /\ pc2' = [pc2 EXCEPT ![c] = << "idle", FALSE >>]
  /\ UNCHANGED << curId, pc, wantVideo, sess, mediaVars, senders, alert, effects, meshVars,
                  faults >>

\* peer.on("error") with type unavailable-id for the second join(): the room
\* identity is taken, possibly by the Peer of the same client's first join()
HostUnavailableAgain(c) ==
  /\ pc2[c][1] = "hostReg"
  /\ reg[Room] # NoClient
  /\ peerRef' = [peerRef EXCEPT ![c] = "pending"]
  /\ pc2' = [pc2 EXCEPT ![c] = << "guestReg", FALSE >>]
  /\ curId' = [curId EXCEPT ![c] = GenId(c, sess[c])]
  /\ UNCHANGED << pc, wantVideo, sess, joined, myId, mediaVars, senders, alert,
                  effects, reg, meshVars, faults >>

\* guest.on("open") of the second join(): lines 137-145
GuestOpenAgain(c) ==
  /\ pc2[c][1] = "guestReg"
  /\ LET id == GenId(c, sess[c])
         h == Len(calls) + 1
         r == SetupCall(callsRef[c], Room, <<h, Caller>>, FALSE)
         k == NewCall(c, id, Room)
     IN /\ reg[id] = NoClient
        /\ reg' = [reg EXCEPT ![id] = c]
        /\ myId' = [myId EXCEPT ![c] = id]
        /\ joined' = [joined EXCEPT ![c] = TRUE]
        /\ peerRef' = [peerRef EXCEPT ![c] = "open"]
        /\ pc2' = [pc2 EXCEPT ![c] = << "idle", FALSE >>]
        /\ callsRef' = [callsRef EXCEPT ![c] = r.calls]
        /\ calls' = Append(calls, [k EXCEPT !.end[Caller] = EndAfterSetup(r)])
        /\ senders' = [senders EXCEPT ![c] = AddSenders(@, <<h, Caller>>, videoTracks[c])]
  /\ UNCHANGED << curId, pc, wantVideo, sess, mediaVars, alert, effects, peers, timers, msgs,
                  faults >>

\* ------------------------------------------------------- incoming calls
\* peer.on("call") at the Host (lines 105-121, up to setTimeout) and
\* guest.on("call") at a Guest (line 147)
CallEvent(h) ==
  /\ h \in 1..Len(calls)
  /\ LET k == calls[h]
         c == reg[k.to]
     IN /\ k.st = "offered"
        /\ ~k.end[Caller].x
        /\ c # NoClient
        /\ LET r == SetupCall(callsRef[c], k.from, <<h, Callee>>, TRUE)
           IN /\ callsRef' = [callsRef EXCEPT ![c] = r.calls]
              /\ calls' = [calls EXCEPT ![h] =
                    [k EXCEPT !.cl[Callee] = c,
                              !.st = IF r.answered THEN "answered" ELSE "ignored",
                              !.end[Callee] = EndAfterSetup(r)]]
              /\ senders' = [senders EXCEPT ![c] =
                    IF r.answered THEN AddSenders(@, <<h, Callee>>, videoTracks[c])
                                  ELSE @]
        /\ timers' = IF k.to = Room
                       THEN timers \cup { [c |-> c, h |-> h, sess |-> sess[c]] }
                       ELSE timers
  /\ UNCHANGED << clientVars, mediaVars, alert, effects, reg, peers, msgs, faults >>

\* ------------------------------------------------------------ gossip
\* the key list without the filter of lines 110-112
Existing_Unfiltered(m, newcomer) == MapKeys(m)

\* Array.from(callsRef.current.keys()).filter((id) => id !== call.peer)
Existing(m, newcomer) == MapKeys(m) \ {newcomer}

\* a settle timer that sends the list also when it is empty
SettleTimer_SendsEmpty(t) ==
  /\ t \in timers
  /\ timers' = timers \ {t}
  /\ LET existing == Existing(callsRef[t.c], calls[t.h].from)
     IN msgs' = IF /\ sess[t.c] = t.sess
                   /\ peerRef[t.c] = "open"
                  THEN msgs \cup { [h |-> t.h, to |-> calls[t.h].from,
                                    peers |-> existing] }
                  ELSE msgs
  /\ UNCHANGED << clientVars, mediaVars, senders, alert, effects, reg, callsRef, peers, calls, faults >>

\* the settle timer of the Host fires: lines 109-120.  peer is the Peer of
\* the session that received the call; connect() on a destroyed Peer opens
\* nothing.
SettleTimer(t) ==
  /\ t \in timers
  /\ timers' = timers \ {t}
  /\ LET existing == Existing(callsRef[t.c], calls[t.h].from)
     IN msgs' = IF /\ existing # {}
                   /\ sess[t.c] = t.sess
                   /\ peerRef[t.c] = "open"
                  THEN msgs \cup { [h |-> t.h, to |-> calls[t.h].from,
                                    peers |-> existing] }
                  ELSE msgs
  /\ UNCHANGED << clientVars, mediaVars, senders, alert, effects, reg, callsRef, peers, calls, faults >>

Min(S) == CHOOSE x \in S : \A y \in S : x <= y

\* the array a set of keys is sent as
RECURSIVE KeyArray(_)
KeyArray(S) == IF S = {} THEN << >> ELSE << Min(S) >> \o KeyArray(S \ {Min(S)})

\* a peer-list handler that places no call
CallPeers_None(list, cs, m, c, me) == [ calls |-> cs, reg |-> m ]

\* data.peers.forEach(...) of the peer-list handler, lines 152-157
RECURSIVE CallPeers(_, _, _, _, _)
CallPeers(list, cs, m, c, me) ==
  IF list = << >> THEN [ calls |-> cs, reg |-> m ]
  ELSE LET peerId == Head(list)
           rest == Tail(list)
       IN IF MapHas(m, peerId)
            THEN CallPeers(rest, cs, m, c, me)
            ELSE LET h == Len(cs) + 1
                     r == SetupCall(m, peerId, <<h, Caller>>, FALSE)
                     k == NewCall(c, me, peerId)
                 IN CallPeers(rest,
                              Append(cs, [k EXCEPT !.end[Caller] = EndAfterSetup(r)]),
                              r.calls, c, me)

\* a peer-list handler that does not look at the registry
PeerListData_CallsAll(m) ==
  /\ m \in msgs
  /\ msgs' = msgs \ {m}
  /\ LET c == reg[m.to]
     IN /\ c # NoClient
        /\ LET r == CallPeers(KeyArray(m.peers), calls, {}, c, m.to)
           IN /\ calls' = r.calls
              /\ callsRef' = [callsRef EXCEPT ![c] =
                    { e \in @ : ~MapHas(r.reg, e[1]) } \cup r.reg]
              /\ senders' = [senders EXCEPT ![c] =
                    @ \cup { << e[2], videoTracks[c] >> : e \in r.reg \ callsRef[c] }]
  /\ UNCHANGED << clientVars, mediaVars, alert, effects, reg, peers, timers, faults >>

\* conn.on("data") at a Guest: lines 149-160
PeerListData(m) ==
  /\ m \in msgs
  /\ msgs' = msgs \ {m}
  /\ LET c == reg[m.to]
     IN /\ c # NoClient
        /\ LET r == CallPeers(KeyArray(m.peers), calls, callsRef[c], c, m.to)
           IN /\ calls' = r.calls
              /\ callsRef' = [callsRef EXCEPT ![c] = r.reg]
              /\ senders' = [senders EXCEPT ![c] =
                    @ \cup { << e[2], videoTracks[c] >> : e \in r.reg \ callsRef[c] }]
  /\ UNCHANGED << clientVars, mediaVars, alert, effects, reg, peers, timers, faults >>

\* ------------------------------------------------- registration failures
\* peer.on("error") of the room-identity Peer with any other type: lines 98-101
HostRegError(c) ==
  /\ pc[c] = "hostReg"
  /\ alert' = [alert EXCEPT ![c] = << sess[c], "Connection failed" >>]
  /\ peerRef' = [peerRef EXCEPT ![c] = "error"]
  /\ pc' = [pc EXCEPT ![c] = "idle"]
  /\ faults' = faults + 1
  /\ UNCHANGED << curId, pc2, wantVideo, sess, joined, myId, mediaVars, senders, effects, reg, meshVars >>

\* the Peer made by initGuest fails to register: initGuest (lines 134-163)
\* registers open, call and connection handlers and no error handler
GuestRegError(c) ==
  /\ pc[c] = "guestReg"
  /\ peerRef' = [peerRef EXCEPT ![c] = "error"]
  /\ pc' = [pc EXCEPT ![c] = "idle"]
  /\ faults' = faults + 1
  /\ UNCHANGED << curId, pc2, wantVideo, sess, joined, myId, mediaVars, senders, alert, effects,
                  reg, meshVars >>

\* ------------------------------------------------ addPeerStream, removePeer
AddPeerStream(p, id, stream) == MapSet(p, id, stream)

\* removePeer that clears the registry instead of deleting one key
RemovePeer_Clears(m, p, id) == [ calls |-> {}, peers |-> MapDelete(p, id) ]

RemovePeer(m, p, id) == [ calls |-> MapDelete(m, id), peers |-> MapDelete(p, id) ]

\* ------------------------------------------------------ connection events
\* call.on("stream"): lines 60-62
StreamEvent(h, s) ==
  /\ h \in 1..Len(calls)
  /\ LET k == calls[h]
         c == k.cl[s]
     IN /\ k.st = "answered"
        /\ k.end[s].hd /\ ~k.end[s].x /\ ~k.end[s].s
        /\ peers' = [peers EXCEPT ![c] = AddPeerStream(@, PeerOf(k, s), <<h, s>>)]
        /\ calls' = [calls EXCEPT ![h].end[s].s = TRUE]
  /\ UNCHANGED << clientVars, mediaVars, senders, alert, effects, reg, callsRef, timers, msgs, faults >>

\* an error handler that also ends the session
ErrorEvent_Escalates(h, s) ==
  /\ h \in 1..Len(calls)
  /\ LET k == calls[h]
         c == k.cl[s]
         r == RemovePeer(callsRef[c], peers[c], PeerOf(k, s))
     IN /\ k.end[s].hd /\ ~k.end[s].x /\ ~k.end[s].e
        /\ callsRef' = [callsRef EXCEPT ![c] = r.calls]
        /\ peers' = [peers EXCEPT ![c] = r.peers]
        /\ calls' = [calls EXCEPT ![h].end[s].e = TRUE]
        /\ joined' = [joined EXCEPT ![c] = FALSE]
        /\ alert' = [alert EXCEPT ![c] = << sess[c], "Call error" >>]
  /\ faults' = faults + 1
  /\ UNCHANGED << curId, pc2, pc, wantVideo, sess, myId, peerRef, mediaVars, senders,
                  effects, reg, timers, msgs >>

\* call.on("error"): lines 65-68
ErrorEvent(h, s) ==
  /\ h \in 1..Len(calls)
  /\ LET k == calls[h]
         c == k.cl[s]
         r == RemovePeer(callsRef[c], peers[c], PeerOf(k, s))
     IN /\ k.end[s].hd /\ ~k.end[s].x /\ ~k.end[s].e
        /\ callsRef' = [callsRef EXCEPT ![c] = r.calls]
        /\ peers' = [peers EXCEPT ![c] = r.peers]
        /\ calls' = [calls EXCEPT ![h].end[s].e = TRUE]
  /\ faults' = faults + 1
  /\ UNCHANGED << clientVars, mediaVars, senders, alert, effects, reg, timers, msgs >>

\* call.on("close"): line 64.  The connection closes when the remote end
\* closed it or after it failed.
CloseEvent(h, s) ==
  /\ h \in 1..Len(calls)
  /\ LET k == calls[h]
         c == k.cl[s]
         r == RemovePeer(callsRef[c], peers[c], PeerOf(k, s))
     IN /\ k.end[s].hd /\ ~k.end[s].x
        /\ k.end[Other(s)].x \/ k.end[s].e
        /\ callsRef' = [callsRef EXCEPT ![c] = r.calls]
        /\ peers' = [peers EXCEPT ![c] = r.peers]
        /\ calls' = [calls EXCEPT ![h].end[s].x = TRUE]
        /\ senders' = [senders EXCEPT ![c] = { x \in @ : x[1] # <<h, s>> }]
  /\ UNCHANGED << clientVars, mediaVars, alert, effects, reg, timers, msgs, faults >>

\* ------------------------------------------------------- media controls
\* toggleMute(): lines 166-173.  The stream of getUserMedia({audio: true})
\* has an audio track.
ToggleMute(c) ==
  /\ localStreamRef[c] # "null"
  /\ audioEnabled' = [audioEnabled EXCEPT ![c] = ~audioEnabled[c]]
  /\ muted' = [muted EXCEPT ![c] = ~audioEnabled'[c]]
  /\ UNCHANGED << clientVars, localStreamRef, localStream, videoEnabled,
                  screenSharing, tracks, videoTracks, pend, senders,
                  alert, effects, reg, meshVars, faults >>

\* stopScreenShare() up to the await of getUserMedia (lines 250-258), run by
\* a closure in which screenSharing has the value seen.  With no video
\* track removeTrack(undefined) throws and nothing more happens.
StopShareStart(seen, ref, ts, vt, p) ==
  IF ~seen \/ ref = "null" \/ Len(vt) = 0
    THEN [ tracks |-> ts, videoTracks |-> vt, pend |-> p ]
    ELSE [ tracks |-> [ ts EXCEPT ![vt[1]].stopped = TRUE ],
           videoTracks |-> Tail(vt),
           pend |-> [ p EXCEPT !.stop = @ + 1 ] ]

\* toggleVideo() without the screenSharing branch of lines 179-182
ToggleVideo_NoShareBranch(c) ==
  /\ localStreamRef[c] # "null"
  /\ IF Len(videoTracks[c]) > 0
       THEN LET t == videoTracks[c][1]
            IN /\ tracks' = [tracks EXCEPT ![c][t].enabled = ~@]
               /\ videoEnabled' = [videoEnabled EXCEPT ![c] = ~tracks[c][t].enabled]
               /\ UNCHANGED << curId, pc2, videoTracks, pend >>
       ELSE /\ CanAcquire(tracks[c], pend[c])
            /\ pend' = [pend EXCEPT ![c].toggle = @ + 1]
            /\ UNCHANGED << curId, pc2, tracks, videoTracks, videoEnabled >>
  /\ UNCHANGED << clientVars, localStreamRef, localStream, muted, screenSharing,
                  audioEnabled, senders, alert, effects, reg, meshVars, faults >>

\* toggleVideo() up to its await (lines 176-193)
ToggleVideo(c) ==
  /\ localStreamRef[c] # "null"
  /\ IF screenSharing[c]
       THEN LET r == StopShareStart(screenSharing[c], localStreamRef[c],
                                    tracks[c], videoTracks[c], pend[c])
            IN /\ r.pend # pend[c] => CanAcquire(tracks[c], pend[c])
               /\ tracks' = [tracks EXCEPT ![c] = r.tracks]
               /\ videoTracks' = [videoTracks EXCEPT ![c] = r.videoTracks]
               /\ pend' = [pend EXCEPT ![c] = r.pend]
               /\ UNCHANGED videoEnabled
       ELSE IF Len(videoTracks[c]) > 0
         THEN LET t == videoTracks[c][1]
              IN /\ tracks' = [tracks EXCEPT ![c][t].enabled = ~@]
                 /\ videoEnabled' = [videoEnabled EXCEPT ![c] = ~tracks[c][t].enabled]
                 /\ UNCHANGED << curId, pc2, videoTracks, pend >>
         ELSE /\ CanAcquire(tracks[c], pend[c])
              /\ pend' = [pend EXCEPT ![c].toggle = @ + 1]
              /\ UNCHANGED << curId, pc2, tracks, videoTracks, videoEnabled >>
  /\ UNCHANGED << clientVars, localStreamRef, localStream, muted, screenSharing,
                  audioEnabled, senders, alert, effects, reg, meshVars, faults >>

\* getUserMedia({video: true}) of toggleVideo resolved: lines 196-208
ToggleVideoGranted(c) ==
  /\ pend[c].toggle > 0
  /\ LET t == Len(tracks[c]) + 1
     IN /\ tracks' = [tracks EXCEPT ![c] = Append(@, NewTrack("camera"))]
        /\ videoTracks' = [videoTracks EXCEPT ![c] = Append(@, t)]
        /\ senders' = [senders EXCEPT ![c] = ReplaceTrack(@, callsRef[c], t)]
  /\ localStream' = [localStream EXCEPT ![c] = "set"]
  /\ videoEnabled' = [videoEnabled EXCEPT ![c] = TRUE]
  /\ pend' = [pend EXCEPT ![c].toggle = @ - 1]
  /\ UNCHANGED << clientVars, localStreamRef, muted, screenSharing, audioEnabled,
                  alert, effects, reg, meshVars, faults >>

\* it rejected: lines 209-211
ToggleVideoDenied(c) ==
  /\ pend[c].toggle > 0
  /\ alert' = [alert EXCEPT ![c] = << sess[c], "Could not access camera." >>]
  /\ pend' = [pend EXCEPT ![c].toggle = @ - 1]
  /\ faults' = faults + 1
  /\ UNCHANGED << clientVars, localStreamRef, localStream, videoEnabled, muted,
                  screenSharing, audioEnabled, tracks, videoTracks, senders,
                  effects, reg, meshVars >>

\* startScreenShare() up to its await (lines 216-220); toggleScreenShare
\* runs it when screenSharing is false (lines 278-279)
StartScreenShare(c) ==
  /\ ~screenSharing[c]
  /\ CanAcquire(tracks[c], pend[c])
  /\ pend' = [pend EXCEPT ![c].start = Append(@, screenSharing[c])]
  /\ UNCHANGED << clientVars, localStreamRef, localStream, videoEnabled, muted,
                  screenSharing, audioEnabled, tracks, videoTracks, senders,
                  alert, effects, reg, meshVars, faults >>

\* getDisplayMedia resolved: lines 222-244
StartScreenShareGranted(c) ==
  /\ pend[c].start # << >>
  /\ pend' = [pend EXCEPT ![c].start = Tail(@)]
  /\ LET t == Len(tracks[c]) + 1
         screen == [ NewTrack("screen") EXCEPT !.onended = TRUE,
                                               !.seen = Head(pend[c].start) ]
         vt == videoTracks[c]
     IN IF localStreamRef[c] # "null"
          THEN /\ tracks' = [tracks EXCEPT ![c] =
                     Append(IF Len(vt) > 0 THEN [ @ EXCEPT ![vt[1]].stopped = TRUE ]
                                           ELSE @, screen)]
               /\ videoTracks' = [videoTracks EXCEPT ![c] =
                     Append(IF Len(vt) > 0 THEN Tail(vt) ELSE vt, t)]
               /\ localStream' = [localStream EXCEPT ![c] = "set"]
               /\ screenSharing' = [screenSharing EXCEPT ![c] = TRUE]
               /\ videoEnabled' = [videoEnabled EXCEPT ![c] = TRUE]
               /\ senders' = [senders EXCEPT ![c] = ReplaceTrack(@, callsRef[c], t)]
          ELSE /\ tracks' = [tracks EXCEPT ![c] = Append(@, screen)]
               /\ UNCHANGED << curId, pc2, videoTracks, localStream, screenSharing,
                               videoEnabled, senders >>
  /\ UNCHANGED << clientVars, localStreamRef, muted, audioEnabled,
                  alert, effects, reg, meshVars, faults >>

\* a cancelled picker that is reported to the user
StartScreenShareDenied_Alerts(c) ==
  /\ pend[c].start # << >>
  /\ pend' = [pend EXCEPT ![c].start = Tail(@)]
  /\ alert' = [alert EXCEPT ![c] = << sess[c], "Screen share failed" >>]
  /\ faults' = faults + 1
  /\ UNCHANGED << clientVars, localStreamRef, localStream, videoEnabled, muted,
                  screenSharing, audioEnabled, tracks, videoTracks, senders,
                  effects, reg, meshVars >>

\* it rejected (the user cancelled the picker): lines 245-247; the catch
\* writes a line to the console and nothing else
StartScreenShareDenied(c) ==
  /\ pend[c].start # << >>
  /\ pend' = [pend EXCEPT ![c].start = Tail(@)]
  /\ faults' = faults + 1
  /\ UNCHANGED << clientVars, localStreamRef, localStream, videoEnabled, muted,
                  screenSharing, audioEnabled, tracks, videoTracks, senders,
                  alert, effects, reg, meshVars >>

\* stopScreenShare() up to its await, run by toggleScreenShare when
\* screenSharing is true (lines 278-279, 250-258)
StopScreenShare(c) ==
  /\ screenSharing[c]
  /\ LET r == StopShareStart(screenSharing[c], localStreamRef[c],
                              tracks[c], videoTracks[c], pend[c])
     IN /\ r.pend # pend[c]
        /\ CanAcquire(tracks[c], pend[c])
        /\ tracks' = [tracks EXCEPT ![c] = r.tracks]
        /\ videoTracks' = [videoTracks EXCEPT ![c] = r.videoTracks]
        /\ pend' = [pend EXCEPT ![c] = r.pend]
  /\ UNCHANGED << clientVars, localStreamRef, localStream, videoEnabled, muted,
                  screenSharing, audioEnabled, senders,
                  alert, effects, reg, meshVars, faults >>

\* getUserMedia({video: true}) of stopScreenShare resolved: lines 259-272
StopScreenShareGranted(c) ==
  /\ pend[c].stop > 0
  /\ LET t == Len(tracks[c]) + 1
     IN /\ tracks' = [tracks EXCEPT ![c] = Append(@, NewTrack("camera"))]
        /\ videoTracks' = [videoTracks EXCEPT ![c] = Append(@, t)]
        /\ senders' = [senders EXCEPT ![c] = ReplaceTrack(@, callsRef[c], t)]
  /\ localStream' = [localStream EXCEPT ![c] = "set"]
  /\ screenSharing' = [screenSharing EXCEPT ![c] = FALSE]
  /\ pend' = [pend EXCEPT ![c].stop = @ - 1]
  /\ UNCHANGED << clientVars, localStreamRef, videoEnabled, muted, audioEnabled,
                  alert, effects, reg, meshVars, faults >>

\* it rejected (no camera): lines 273-275
StopScreenShareDenied(c) ==
  /\ pend[c].stop > 0
  /\ videoEnabled' = [videoEnabled EXCEPT ![c] = FALSE]
  /\ pend' = [pend EXCEPT ![c].stop = @ - 1]
  /\ faults' = faults + 1
  /\ UNCHANGED << clientVars, localStreamRef, localStream, muted, screenSharing,
                  audioEnabled, tracks, videoTracks, senders,
                  alert, effects, reg, meshVars >>

\* the capture behind screen track t is ended from outside the page (the
\* browser's "stop sharing" bar): the track ends and its onended handler
\* runs, which is the stopScreenShare of the render startScreenShare ran in
CaptureEnded(c, t) ==
  /\ t \in 1..Len(tracks[c])
  /\ tracks[c][t].kind = "screen" /\ ~tracks[c][t].stopped
  /\ LET ended == [ tracks[c] EXCEPT ![t].stopped = TRUE ]
         r == IF tracks[c][t].onended
                THEN StopShareStart(tracks[c][t].seen, localStreamRef[c],
                                    ended, videoTracks[c], pend[c])
                ELSE [ tracks |-> ended, videoTracks |-> videoTracks[c],
                       pend |-> pend[c] ]
     IN /\ tracks' = [tracks EXCEPT ![c] = r.tracks]
        /\ videoTracks' = [videoTracks EXCEPT ![c] = r.videoTracks]
        /\ pend' = [pend EXCEPT ![c] = r.pend]
  /\ UNCHANGED << clientVars, localStreamRef, localStream, videoEnabled, muted,
                  screenSharing, audioEnabled, senders,
                  alert, effects, reg, meshVars, faults >>

\* ---------------------------------------------------------------- leave
\* the external calls of leave() in the order the code makes them
LeaveEffects(stream, m, peer) ==
     (IF stream # "null" THEN << "stopTracks" >> ELSE << >>)
  \o (IF m # {} THEN << "closeCalls" >> ELSE << >>)
  \o (IF peer # "null" THEN << "destroyPeer" >> ELSE << >>)

\* every MediaConnection of the client is closed: call.close() on the
\* registry entries (line 284) and peer.destroy() for the rest (line 286)
CloseAllOf(cs, c) ==
  [ h \in 1..Len(cs) |->
      [ cs[h] EXCEPT !.end = [ s \in {Caller, Callee} |->
            IF cs[h].cl[s] = c THEN [ cs[h].end[s] EXCEPT !.x = TRUE ]
                               ELSE cs[h].end[s] ] ] ]

\* leave() that flips muted
LeaveBody_FlipsMuted(c) ==
  /\ effects' = [effects EXCEPT ![c] =
        LeaveEffects(localStreamRef[c], callsRef[c], peerRef[c])]
  /\ localStreamRef' = [localStreamRef EXCEPT ![c] =
        IF @ = "null" THEN "null" ELSE "stopped"]
  /\ tracks' = [tracks EXCEPT ![c] = StopTracks(@, videoTracks[c])]
  /\ calls' = CloseAllOf(calls, c)
  /\ callsRef' = [callsRef EXCEPT ![c] = {}]
  /\ senders' = [senders EXCEPT ![c] = {}]
  /\ peerRef' = [peerRef EXCEPT ![c] = IF @ = "null" THEN "null" ELSE "destroyed"]
  /\ reg' = [ i \in Ids |-> IF reg[i] = c /\ i = curId[c] THEN NoClient ELSE reg[i] ]
  /\ joined' = [joined EXCEPT ![c] = FALSE]
  /\ peers' = [peers EXCEPT ![c] = {}]
  /\ localStream' = [localStream EXCEPT ![c] = "null"]
  /\ screenSharing' = [screenSharing EXCEPT ![c] = FALSE]
  /\ videoEnabled' = [videoEnabled EXCEPT ![c] = FALSE]
  /\ muted' = [muted EXCEPT ![c] = ~muted[c]]
  /\ UNCHANGED << curId, pc2, pc, wantVideo, sess, myId, audioEnabled, videoTracks, pend,
                  alert, timers, msgs, faults >>

\* leave(): lines 282-294.  peerRef.current?.destroy() ends the registration
\* of the Peer peerRef.current points to.
LeaveBody(c) ==
  /\ effects' = [effects EXCEPT ![c] =
        LeaveEffects(localStreamRef[c], callsRef[c], peerRef[c])]
  /\ localStreamRef' = [localStreamRef EXCEPT ![c] =
        IF @ = "null" THEN "null" ELSE "stopped"]
  /\ tracks' = [tracks EXCEPT ![c] = StopTracks(@, videoTracks[c])]
  /\ calls' = CloseAllOf(calls, c)
  /\ callsRef' = [callsRef EXCEPT ![c] = {}]
  /\ senders' = [senders EXCEPT ![c] = {}]
  /\ peerRef' = [peerRef EXCEPT ![c] = IF @ = "null" THEN "null" ELSE "destroyed"]
  /\ reg' = [ i \in Ids |-> IF reg[i] = c /\ i = curId[c] THEN NoClient ELSE reg[i] ]
  /\ joined' = [joined EXCEPT ![c] = FALSE]
  /\ peers' = [peers EXCEPT ![c] = {}]
  /\ localStream' = [localStream EXCEPT ![c] = "null"]
  /\ screenSharing' = [screenSharing EXCEPT ![c] = FALSE]
  /\ videoEnabled' = [videoEnabled EXCEPT ![c] = FALSE]
  /\ muted' = [muted EXCEPT ![c] = FALSE]
  /\ UNCHANGED << curId, pc2, pc, wantVideo, sess, myId, audioEnabled, videoTracks, pend,
                  alert, timers, msgs, faults >>

\* the Leave button, rendered while joined (ControlBar, onLeave)
Leave(c) == joined[c] /\ LeaveBody(c)

\* leave() run again by a handler of a render in which the participant was
\* joined, or run before any join
LeaveAgain(c) == ~joined[c] /\ pc[c] = "idle" /\ LeaveBody(c)

\* ------------------------------------------------------------- all runs
RECURSIVE SumSess(_)
SumSess(S) == IF S = {} THEN 0
              ELSE LET c == CHOOSE x \in S : TRUE IN sess[c] + SumSess(S \ {c})
TotalJoins == SumSess(Clients)

MediaErrors == { "NotAllowedError", "NotReadableError" }

\* the clients are interchangeable: client c + 1 opens its tab after client c
MayJoin(c) == c <= SessionClients /\ \A d \in 1..(c - 1) : sess[d] > 0


Next ==
  \/ \E c \in Clients, v \in BOOLEAN :
        MayJoin(c) /\ TotalJoins < MaxJoins /\ Join(c, v)
  \/ \E c \in Clients : MediaGranted(c)
  \/ \E c \in Clients, e \in MediaErrors : faults < MaxFaults /\ MediaDenied(c, e)
  \/ \E c \in Clients : HostOpen(c)
  \/ \E c \in Clients : HostUnavailable(c)
  \/ \E c \in Clients : faults < MaxFaults /\ HostRegError(c)
  \/ \E c \in Clients : GuestOpen(c)
  \/ \E c \in Clients : faults < MaxFaults /\ GuestRegError(c)
  \/ \E h \in 1..Len(calls) : CallEvent(h)
  \/ \E t \in timers : SettleTimer(t)
  \/ \E m \in msgs : PeerListData(m)
  \/ \E h \in 1..Len(calls), s \in {Caller, Callee} : StreamEvent(h, s)
  \/ \E h \in 1..Len(calls), s \in {Caller, Callee} :
        faults < MaxFaults /\ ErrorEvent(h, s)
  \/ \E h \in 1..Len(calls), s \in {Caller, Callee} : CloseEvent(h, s)
  \/ \E c \in Clients : Leave(c)

Spec == Init /\ [][Next]_vars

\* ------------------------------------------------- identity resolution
\* join, the registration outcomes and leave (so that a client can join
\* again); calls that were placed stay in flight
NextJoin ==
  \/ \E c \in Clients, v \in BOOLEAN :
        MayJoin(c) /\ TotalJoins < MaxJoins /\ Join(c, v)
  \/ \E c \in Clients : MediaGranted(c)
  \/ \E c \in Clients, e \in MediaErrors : faults < MaxFaults /\ MediaDenied(c, e)
  \/ \E c \in Clients : HostOpen(c)
  \/ \E c \in Clients : HostUnavailable(c)
  \/ \E c \in Clients : faults < MaxFaults /\ HostRegError(c)
  \/ \E c \in Clients : GuestOpen(c)
  \/ \E c \in Clients : faults < MaxFaults /\ GuestRegError(c)
  \/ \E c \in Clients : Leave(c)

SpecJoin == Init /\ [][NextJoin]_vars

\* ---------------------------------------------------------- leave again
\* as NextJoin, and leave() may run while the participant is not joined
NextLeave ==
  \/ NextJoin
  \/ \E c \in Clients : LeaveAgain(c)

SpecLeave == Init /\ [][NextLeave]_vars

\* -------------------------------------------------------- media controls
\* Client 1 joins with or without video, as Host; client 2 joins and calls
\* it.  Client 1 uses its ControlBar, which is rendered while joined and
\* whose camera button is disabled while screenSharing (ControlBar.tsx,
\* line 41); it may leave and join again.
MediaClient == 1
Guest == 2

NextMedia ==
  \/ \E v \in BOOLEAN : TotalJoins < MaxJoins /\ Join(MediaClient, v)
  \/ sess[2] = 0 /\ joined[MediaClient] /\ Join(2, FALSE)
  \/ \E c \in Clients : MediaGranted(c)
  \/ \E c \in Clients : HostOpen(c)
  \/ \E c \in Clients : HostUnavailable(c)
  \/ \E c \in Clients : GuestOpen(c)
  \/ \E h \in 1..Len(calls) : CallEvent(h)
  \/ \E t \in timers : SettleTimer(t)
  \/ joined[MediaClient] /\ ToggleMute(MediaClient)
  \/ joined[MediaClient] /\ ~screenSharing[MediaClient] /\ ToggleVideo(MediaClient)
  \/ ToggleVideoGranted(MediaClient)
  \/ faults < MaxFaults /\ ToggleVideoDenied(MediaClient)
  \/ joined[MediaClient] /\ StartScreenShare(MediaClient)
  \/ StartScreenShareGranted(MediaClient)
  \/ faults < MaxFaults /\ StartScreenShareDenied(MediaClient)
  \/ joined[MediaClient] /\ StopScreenShare(MediaClient)
  \/ StopScreenShareGranted(MediaClient)
  \/ faults < MaxFaults /\ StopScreenShareDenied(MediaClient)
  \/ \E t \in 1..Len(tracks[MediaClient]) : CaptureEnded(MediaClient, t)
  \/ Leave(MediaClient)

SpecMedia == Init /\ [][NextMedia]_vars

\* ------------------------------------------- toggleVideo while sharing
\* The handlers of client 1, with toggleVideo run whatever the state of its
\* button; stopScreenShare runs only through toggleVideo (line 180).  Client
\* 2 joins as a Guest and calls client 1.
NextToggle ==
  \/ \E v \in BOOLEAN : sess[MediaClient] = 0 /\ Join(MediaClient, v)
  \/ sess[Guest] = 0 /\ joined[MediaClient] /\ Join(Guest, FALSE)
  \/ \E c \in {MediaClient, Guest} : MediaGranted(c)
  \/ HostOpen(MediaClient)
  \/ HostUnavailable(Guest)
  \/ GuestOpen(Guest)
  \/ \E h \in 1..Len(calls) : CallEvent(h)
  \/ \E t \in timers : SettleTimer(t)
  \/ joined[MediaClient] /\ ToggleVideo(MediaClient)
  \/ ToggleVideoGranted(MediaClient)
  \/ faults < MaxFaults /\ ToggleVideoDenied(MediaClient)
  \/ joined[MediaClient] /\ StartScreenShare(MediaClient)
  \/ StartScreenShareGranted(MediaClient)
  \/ faults < MaxFaults /\ StartScreenShareDenied(MediaClient)
  \/ StopScreenShareGranted(MediaClient)
  \/ faults < MaxFaults /\ StopScreenShareDenied(MediaClient)

SpecToggle == Init /\ [][NextToggle]_vars

\* ------------------------------------------ one registry, any event order
\* Client 1 is the Host and client 2 a Guest.  Participants outside the
\* model call the Guest, under identities that may repeat, and close their
\* end when they like; the service delivers the events of each of the
\* Guest's connections in any order.
RemoteIds == (NumClients + 1)..(2 * NumClients - 1)

\* a participant outside the model runs guest.call(peerId, stream)
RemoteCall(id) ==
  /\ joined[Guest]
  /\ calls' = Append(calls, NewCall(NoClient, id, myId[Guest]))
  /\ UNCHANGED << clientVars, mediaVars, senders, alert, effects, reg, callsRef, peers,
                  timers, msgs, faults >>

\* a participant outside the model closes its end of a call
RemoteClose(h) ==
  /\ h \in 1..Len(calls)
  /\ calls[h].cl[Caller] = NoClient
  /\ ~calls[h].end[Caller].x
  /\ calls' = [calls EXCEPT ![h].end[Caller].x = TRUE]
  /\ UNCHANGED << clientVars, mediaVars, senders, alert, effects, reg, callsRef, peers,
                  timers, msgs, faults >>

\* the ends of calls that belong to the Guest
GuestEnds ==
  { e \in (1..Len(calls)) \X {Caller, Callee} : calls[e[1]].cl[e[2]] = Guest }

NextRegistry ==
  \/ \E c \in {1, Guest} :
        /\ sess[c] = 0
        /\ \A d \in 1..(c - 1) : joined[d]
        /\ Join(c, FALSE)
  \/ \E c \in Clients : MediaGranted(c)
  \/ \E c \in Clients : HostOpen(c)
  \/ \E c \in Clients : HostUnavailable(c)
  \/ \E c \in Clients : GuestOpen(c)
  \/ \E id \in RemoteIds : Len(calls) <= MaxCalls /\ RemoteCall(id)
  \/ \E h \in 1..Len(calls) : RemoteClose(h)
  \/ \E h \in 1..Len(calls) : CallEvent(h)
  \/ \E t \in timers : SettleTimer(t)
  \/ \E e \in GuestEnds : StreamEvent(e[1], e[2])
  \/ \E e \in GuestEnds : faults < MaxFaults /\ ErrorEvent(e[1], e[2])
  \/ \E e \in GuestEnds : CloseEvent(e[1], e[2])

SpecRegistry == Init /\ [][NextRegistry]_vars

\* ------------------------------------------------- participants that leave
\* Every client joins once and may leave; connections may fail.  The
\* service delivers the close event of a connection whose other end closed.
NextClose ==
  \/ \E c \in Clients : c <= SessionClients /\ sess[c] = 0 /\ Join(c, FALSE)
  \/ \E c \in Clients : MediaGranted(c)
  \/ \E c \in Clients : HostOpen(c)
  \/ \E c \in Clients : HostUnavailable(c)
  \/ \E c \in Clients : GuestOpen(c)
  \/ \E h \in 1..Len(calls) : CallEvent(h)
  \/ \E t \in timers : SettleTimer(t)
  \/ \E h \in 1..Len(calls), s \in {Caller, Callee} : StreamEvent(h, s)
  \/ \E h \in 1..Len(calls), s \in {Caller, Callee} :
        faults < MaxFaults /\ ErrorEvent(h, s)
  \/ \E h \in 1..Len(calls), s \in {Caller, Callee} : CloseEvent(h, s)
  \/ \E c \in Clients : Leave(c)

SpecClose ==
  /\ Init /\ [][NextClose]_vars
  /\ WF_vars(\E h \in 1..Len(calls), s \in {Caller, Callee} : CloseEvent(h, s))

\* --------------------------------------------- gossip with outside guests
\* a participant outside the model joins the room: it runs
\* guest.call(room, stream), line 143
RemoteJoin(id) ==
  /\ reg[Room] # NoClient
  /\ calls' = Append(calls, NewCall(NoClient, id, Room))
  /\ UNCHANGED << clientVars, mediaVars, senders, alert, effects, reg, callsRef, peers,
                  timers, msgs, faults >>

\* the calls placed so far by participants outside the model
RemoteCalls == { h \in 1..Len(calls) : calls[h].cl[Caller] = NoClient }

\* the outside identities are taken into use in ascending order
MayCall(id) ==
  /\ Cardinality(RemoteCalls) <= MaxCalls
  /\ \A d \in RemoteIds : d < id => \E h \in RemoteCalls : calls[h].from = d

\* Client 1 is the Host and client 2 a Guest.  Participants outside the
\* model call the room and the Guest, under identities that may repeat.
\* Nothing fails and nobody leaves; a list sent to an identity outside the
\* model is never taken out of msgs.
NextGossip ==
  \/ \E c \in {1, Guest} :
        /\ sess[c] = 0
        /\ \A d \in 1..(c - 1) : joined[d]
        /\ Join(c, FALSE)
  \/ \E c \in Clients : MediaGranted(c)
  \/ \E c \in Clients : HostOpen(c)
  \/ \E c \in Clients : HostUnavailable(c)
  \/ \E c \in Clients : GuestOpen(c)
  \/ \E id \in RemoteIds : MayCall(id) /\ RemoteJoin(id)
  \/ \E id \in RemoteIds : MayCall(id) /\ RemoteCall(id)
  \/ \E h \in 1..Len(calls) : CallEvent(h)
  \/ \E t \in timers : SettleTimer(t)
  \/ \E m \in msgs : PeerListData(m)

SpecGossip == Init /\ [][NextGossip]_vars

\* ------------------------------------------- a registry and reconnections
\* as NextRegistry, with outside participants that call the Guest again
\* under the identity they used before
NextReconnect ==
  \/ \E c \in {1, Guest} :
        /\ sess[c] = 0
        /\ \A d \in 1..(c - 1) : joined[d]
        /\ Join(c, FALSE)
  \/ \E c \in Clients : MediaGranted(c)
  \/ \E c \in Clients : HostOpen(c)
  \/ \E c \in Clients : HostUnavailable(c)
  \/ \E c \in Clients : GuestOpen(c)
  \/ \E id \in RemoteIds : MayCall(id) /\ RemoteCall(id)
  \/ \E h \in 1..Len(calls) : RemoteClose(h)
  \/ \E h \in 1..Len(calls) : CallEvent(h)
  \/ \E t \in timers : SettleTimer(t)
  \/ \E e \in GuestEnds : StreamEvent(e[1], e[2])
  \/ \E e \in GuestEnds : faults < MaxFaults /\ ErrorEvent(e[1], e[2])
  \/ \E e \in GuestEnds : CloseEvent(e[1], e[2])

SpecReconnect == Init /\ [][NextReconnect]_vars

\* ------------------------------------------------- the join button twice
\* Client 1 clicks the join button and may click it again before it has
\* joined, and may leave once; client 2 joins once client 1 has.  Nothing
\* fails.
NextRejoin ==
  \/ \E v \in BOOLEAN : sess[MediaClient] = 0 /\ Join(MediaClient, v)
  \/ \E v \in BOOLEAN : JoinAgain(MediaClient, v)
  \/ sess[Guest] = 0 /\ joined[MediaClient] /\ Join(Guest, FALSE)
  \/ \E c \in {MediaClient, Guest} : MediaGranted(c)
  \/ \E c \in {MediaClient, Guest} : HostOpen(c)
  \/ \E c \in {MediaClient, Guest} : HostUnavailable(c)
  \/ \E c \in {MediaClient, Guest} : GuestOpen(c)
  \/ MediaGrantedAgain(MediaClient)
  \/ HostOpenAgain(MediaClient)
  \/ HostUnavailableAgain(MediaClient)
  \/ GuestOpenAgain(MediaClient)
  \/ \E h \in 1..Len(calls) : CallEvent(h)
  \/ \E t \in timers : SettleTimer(t)
  \/ \E m \in msgs : PeerListData(m)
  \/ effects[MediaClient] = << >> /\ Leave(MediaClient)

SpecRejoin == Init /\ [][NextRejoin]_vars

\* ------------------------------------------------------------ mesh runs
\* Every client joins once; no failure, nobody leaves, no message is lost.
\* Stream events are left out: they write only peers, which no step of the
\* join or of the gossip reads.
NextMesh ==
  \/ \E c \in Clients : sess[c] = 0 /\ Join(c, FALSE)
  \/ \E c \in Clients : MediaGranted(c)
  \/ \E c \in Clients : HostOpen(c)
  \/ \E c \in Clients : HostUnavailable(c)
  \/ \E c \in Clients : GuestOpen(c)
  \/ \E h \in 1..Len(calls) : CallEvent(h)
  \/ \E t \in timers : SettleTimer(t)
  \/ \E m \in msgs : PeerListData(m)

SpecMesh == Init /\ [][NextMesh]_vars

\* ------------------------------------------------------ sequential runs
\* no join in progress, no call, timer or peer-list message outstanding
Settled ==
  /\ \A c \in Clients : pc[c] = "idle"
  /\ \A h \in 1..Len(calls) : calls[h].st # "offered"
  /\ timers = {}
  /\ msgs = {}

\* as NextMesh, but a client joins only once the previous join has settled
NextSeq ==
  \/ \E c \in Clients : sess[c] = 0 /\ Settled /\ Join(c, FALSE)
  \/ \E c \in Clients : MediaGranted(c)
  \/ \E c \in Clients : HostOpen(c)
  \/ \E c \in Clients : HostUnavailable(c)
  \/ \E c \in Clients : GuestOpen(c)
  \/ \E h \in 1..Len(calls) : CallEvent(h)
  \/ \E t \in timers : SettleTimer(t)
  \/ \E m \in msgs : PeerListData(m)
  \/ \E h \in 1..Len(calls), s \in {Caller, Callee} : StreamEvent(h, s)

SpecSeq == Init /\ [][NextSeq]_vars

\* ------------------------------------------------------------ properties
Joined == { c \in Clients : joined[c] }
OthersOf(c) == { myId[d] : d \in Joined \ {c} }

\* C1: with joins one after another, whenever gossip has settled the
\* registry of every participant holds exactly the identities of all the
\* other participants.
C1_SequentialFullMesh ==
  Settled => \A c \in Joined : MapKeys(callsRef[c]) = OthersOf(c)

\* Host, Guest1 and Guest2 joined one after another and gossip settled
C1_Witness ==
  /\ Settled
  /\ Joined = Clients
  /\ \E c \in Clients : myId[c] = Room /\ Cardinality(MapKeys(callsRef[c])) = NumClients - 1

\* C2: for every interleaving of the joins, once every client has joined and
\* all timers and messages are processed, every registry contains every
\* other participant.
C2_ConcurrentFullMesh ==
  (Settled /\ Joined = Clients) =>
      \A c \in Clients : \A d \in Clients \ {c} : MapHas(callsRef[c], myId[d])

\* two guests called the Host within one settle window (both timers were
\* pending together, so each guest got the other in its peer list and the
\* two called each other), and the run has settled
C2_Witness ==
  /\ Settled
  /\ Joined = Clients
  /\ \E h1, h2 \in 1..Len(calls) :
       /\ calls[h1].to # Room
       /\ calls[h1].from = calls[h2].to
       /\ calls[h1].to = calls[h2].from

\* ---------------------------------------------------------------------
\* a Map holds one value per key
NoDuplicateEntry ==
  \A c \in Clients : \A e1, e2 \in callsRef[c] : e1[1] = e2[1] => e1 = e2

\* a call that met an existing entry is not answered, gets no handlers and
\* is stored nowhere
IgnoredCallUntouched ==
  \A h \in 1..Len(calls) :
    calls[h].st = "ignored" =>
      /\ ~calls[h].end[Callee].hd
      /\ \A c \in Clients : \A e \in callsRef[c] : e[2] # <<h, Callee>>

\* without a close or error the handle an outbound call stored stays stored
StoredHandleKept ==
  \A h \in 1..Len(calls) :
    calls[h].end[Caller].hd =>
      <<calls[h].to, <<h, Caller>>>> \in callsRef[calls[h].cl[Caller]]

\* C3 (as the spec states it): the registry never holds two entries for one
\* identity, setupCall on an identity that has an entry changes nothing, and
\* the operation reports that nothing was inserted (register returns false).
C3_Original ==
  /\ NoDuplicateEntry
  /\ IgnoredCallUntouched
  /\ StoredHandleKept
  /\ \A h \in 1..Len(calls) :
       calls[h].st = "ignored" => calls[h].end[Callee].ret = "false"

\* C3 (amended): the registry never holds two entries for one identity and
\* setupCall on an identity that has an entry changes nothing (the stored
\* handle stays, the new handle is not answered and gets no handlers);
\* setupCall returns nothing, whether it inserted or not.
C3_RegisterIdempotent ==
  /\ NoDuplicateEntry
  /\ IgnoredCallUntouched
  /\ StoredHandleKept
  /\ \A h \in 1..Len(calls) : \A s \in {Caller, Callee} :
       calls[h].end[s].ret \in {"none", "undefined"}

\* an inbound call arrived for an identity that already had an entry
C3_Witness ==
  \E h \in 1..Len(calls) :
    /\ calls[h].st = "ignored"
    /\ MapHas(callsRef[calls[h].cl[Callee]], calls[h].from)

\* ---------------------------------------------------------------------
\* C4: a stream event for an identity without a registry entry changes
\* neither the registry nor the map of remote streams.
C4_StreamWithoutEntryIsNoOp ==
  [][ \A h \in 1..Len(calls) : \A s \in {Caller, Callee} :
        (StreamEvent(h, s)
           /\ ~MapHas(callsRef[calls[h].cl[s]], PeerOf(calls[h], s)))
        => (peers' = peers /\ callsRef' = callsRef) ]_vars

\* ---------------------------------------------------------------------
\* C5: removePeer is idempotent and changes nothing for an identity that is
\* in neither map.
C5_RemoveIdempotent ==
  \A c \in Clients : \A id \in Ids :
    LET r1 == RemovePeer(callsRef[c], peers[c], id)
        r2 == RemovePeer(r1.calls, r1.peers, id)
    IN /\ r2 = r1
       /\ ~MapHas(r1.calls, id) /\ ~MapHas(r1.peers, id)
       /\ (~MapHas(callsRef[c], id) /\ ~MapHas(peers[c], id))
             => (r1.calls = callsRef[c] /\ r1.peers = peers[c])
       /\ \A e \in callsRef[c] : e[1] # id => e \in r1.calls
       /\ \A e \in peers[c] : e[1] # id => e \in r1.peers

\* the error handler and then the close handler of one connection both ran
\* removePeer: the second removal found no entry
C5_Witness ==
  \E h \in 1..Len(calls) : \E s \in {Caller, Callee} :
    /\ calls[h].end[s].hd /\ calls[h].end[s].e /\ calls[h].end[s].x
    /\ joined[calls[h].cl[s]]
    /\ ~MapHas(callsRef[calls[h].cl[s]], PeerOf(calls[h], s))

\* ---------------------------------------------------------------------
\* peerArray.length + 1 (lines 353, 367)
ParticipantCount(c) == Cardinality(peers[c]) + 1

\* C6: the participant count of a joined participant is the registry size
\* plus one, also while a registered connection has not delivered a stream.
C6_CountIsRegistryPlusOne ==
  \A c \in Clients :
    joined[c] => ParticipantCount(c) = Cardinality(callsRef[c]) + 1

\* ---------------------------------------------------------------------
CallsToRoomFrom(id) ==
  { h \in 1..Len(calls) : calls[h].from = id /\ calls[h].to = Room }

\* a joined participant holds one registration: the room identity and no call
\* to the room, or its generated identity and one call to the room; a
\* participant that is not joined holds none and has placed no call yet
C7_RoleState ==
  /\ \A c \in Clients :
       /\ joined[c] =>
            /\ reg[myId[c]] = c
            /\ \A i \in Ids : reg[i] = c => i = myId[c]
            /\ myId[c] = Room => CallsToRoomFrom(Room) = {}
            /\ myId[c] # Room =>
                 /\ myId[c] = GenId(c, sess[c])
                 /\ Cardinality(CallsToRoomFrom(myId[c])) = 1
       /\ ~joined[c] => \A i \in Ids : reg[i] # c
       /\ pc[c] # "idle" => CallsToRoomFrom(GenId(c, sess[c])) = {}
  /\ \A i \in Ids : Cardinality(CallsToRoomFrom(i)) <= 1

\* the registration of the room identity opens when the identity is free
\* and collides when it is taken
C7_RoleStep ==
  \A c \in Clients :
    (pc[c] = "hostReg" /\ pc'[c] # "hostReg" /\ faults' = faults) =>
       \/ /\ reg[Room] = NoClient
          /\ joined'[c] /\ myId'[c] = Room /\ reg'[Room] = c
          /\ pc'[c] = "idle"
       \/ /\ reg[Room] # NoClient
          /\ ~joined'[c] /\ reg' = reg /\ calls' = calls
          /\ pc'[c] = "guestReg"

\* C7: a join attempt ends in one role.  A participant whose registration of
\* R opened is Host with identity R; after the collision the registration of
\* R is abandoned, the participant registers a generated identity other than
\* R, is Guest, and places one call to R, not before that registration opened.
C7_OneRole == []C7_RoleState /\ [][C7_RoleStep]_vars

\* a Host and a Guest that called it
C7_Witness ==
  \E c, d \in Clients :
    /\ joined[c] /\ myId[c] = Room
    /\ joined[d] /\ myId[d] # Room
    /\ CallsToRoomFrom(myId[d]) # {}

\* ---------------------------------------------------------------------
\* C8: after a registration failure other than the collision the participant
\* is not joined, no registration is pending and the failure was reported
\* for this join attempt.
C8_RegFailureReported ==
  \A c \in Clients :
    (pc[c] = "idle" /\ peerRef[c] = "error") =>
       /\ ~joined[c]
       /\ alert[c] = << sess[c], "Connection failed" >>

\* ---------------------------------------------------------------------
\* the step in which the acquisition awaited by join() fails
C9_Step ==
  \A c \in Clients :
    (pc[c] = "media" /\ pc'[c] # "media" /\ faults' # faults) =>
       /\ alert'[c][1] = sess[c]
       /\ alert'[c][2] \notin {"none", "Connection failed"}
       /\ pc'[c] = "idle"
       /\ ~joined'[c]
       /\ peerRef' = peerRef /\ reg' = reg /\ myId' = myId
       /\ callsRef' = callsRef /\ peers' = peers /\ calls' = calls
       /\ localStreamRef' = localStreamRef /\ localStream' = localStream
       /\ videoEnabled' = videoEnabled /\ muted' = muted
       /\ screenSharing' = screenSharing

\* C9: when getUserMedia fails the failure is reported, no registration is
\* attempted, the participant stays not joined, and the registry and the
\* local media state are unchanged.
C9_MediaFailureAbortsJoin == [][C9_Step]_vars

\* a join attempt that asked for video was aborted by a media failure
C9_Witness ==
  \E c \in Clients :
    /\ pc[c] = "idle" /\ ~joined[c] /\ sess[c] > 0
    /\ alert[c][1] = sess[c]
    /\ alert[c][2] = "Microphone access is required to join the call."
    /\ peerRef[c] = "null"

\* ---------------------------------------------------------------------
\* the order the spec asks of leave
Rank(e) == CASE e = "closeCalls" -> 1 [] e = "stopTracks" -> 2 [] e = "destroyPeer" -> 3

\* the step in which a joined participant leaves
C10_Step ==
  \A c \in Clients :
    (joined[c] /\ ~joined'[c]) =>
       /\ \A i, j \in 1..Len(effects'[c]) :
            i < j => Rank(effects'[c][i]) < Rank(effects'[c][j])
       /\ callsRef'[c] = {}
       /\ reg'[myId[c]] = NoClient

\* C10: leave closes the connections, then stops the local tracks, then
\* releases the registration, and leaves the registry empty and the
\* participant not joined.
C10_LeaveOrder == [][C10_Step]_vars

\* ---------------------------------------------------------------------
\* the participant never joined or has left: nothing is registered, no Peer
\* is alive and no local track is live
Left(c) ==
  /\ ~joined[c] /\ pc[c] = "idle"
  /\ peerRef[c] \in {"null", "destroyed"}
  /\ localStreamRef[c] \in {"null", "stopped"}

\* leave() run while the participant is not joined
C11_Step ==
  \A c \in Clients :
    LeaveAgain(c) =>
       /\ ~joined'[c] /\ callsRef'[c] = {} /\ peers'[c] = {}
       /\ localStream'[c] = "null"
       /\ ~muted'[c] /\ ~videoEnabled'[c] /\ ~screenSharing'[c]
       /\ \A i \in Ids : reg'[i] # c
       /\ Left(c) =>
            /\ UNCHANGED << clientVars, mediaVars, senders, callsRef, peers,
                            calls, reg, alert, timers, msgs, faults >>
            /\ Left(c)'

\* C11: leave() run by a participant that has left, or that never joined,
\* fails nowhere and leaves the joined flag, the registry, the stream map
\* and the local media flags as a single leave leaves them.
C11_LeaveIdempotent == [][C11_Step]_vars

\* a Guest left and leave() ran once more: the first leave closed the call
\* to the Host, the last one found no connection to close
C11_Witness ==
  \E c \in Clients :
    /\ Left(c) /\ faults = 0
    /\ myId[c] \notin {NoId, Room}
    /\ effects[c] = << "stopTracks", "destroyPeer" >>

\* ---------------------------------------------------------------------
\* muted is true exactly when the audio track of the local stream is disabled
MicMirrors ==
  \A c \in Clients :
    localStreamRef[c] # "null" => (muted[c] <=> ~audioEnabled[c])

\* a toggle flips muted
MicToggleStep == \A c \in Clients : ToggleMute(c) => muted'[c] = ~muted[c]

\* C12: toggling the microphone twice gives back the value of muted, and in
\* every state, after leave and after a re-join too, muted is true exactly
\* when the local audio track is disabled.
C12_MicMirrorsTrack == []MicMirrors /\ [][MicToggleStep]_vars

\* ---------------------------------------------------------------------
\* the tracks the senders of registry connection e of client c send
SentBy(c, e) == { x[2] : x \in { y \in senders[c] : y[1] = e[2] } }

\* C13: whenever no acquisition is awaited and the local stream has a video
\* track, every registry connection has a video sender, and that sender
\* sends a live video track of the local stream.
C13_SendersFollowTrack ==
  \A c \in Clients :
    (joined[c] /\ pend[c] = NoPending /\ Len(videoTracks[c]) > 0) =>
       \A e \in callsRef[c] : \E sn \in SentBy(c, e) :
          /\ Len(sn) > 0
          /\ \E j \in 1..Len(videoTracks[c]) : videoTracks[c][j] = sn[1]
          /\ ~tracks[c][sn[1]].stopped

\* ---------------------------------------------------------------------
\* C14: the local stream holds at most one video track, whatever the
\* interleaving of the requests and of the acquisitions they await.
C14_AtMostOneVideoTrack == \A c \in Clients : Len(videoTracks[c]) <= 1

\* ---------------------------------------------------------------------
\* the step in which the camera of stopScreenShare is acquired
C15_Step ==
  \A c \in Clients :
    (StopScreenShareGranted(c) /\ joined[c]) =>
       /\ ~screenSharing'[c]
       /\ \A e \in callsRef'[c] :
            \E x \in senders'[c] :
               /\ x[1] = e[2]
               /\ x[2] = << Len(tracks'[c]) >>
               /\ tracks'[c][x[2][1]].kind = "camera"
               /\ ~tracks'[c][x[2][1]].stopped

\* C15: after startScreenShare and then stopScreenShare with a camera
\* available, every registry connection sends one video track, the
\* re-acquired camera track, and screenSharing is false.
C15_CameraBackAfterShare == [][C15_Step]_vars

\* ---------------------------------------------------------------------
\* the step in which the capture of the shared screen is ended from outside
C16_Step ==
  \A c \in Clients : \A t \in 1..Len(tracks[c]) :
    (CaptureEnded(c, t) /\ screenSharing[c] /\ videoTracks[c] = << t >>) =>
       /\ videoTracks'[c] = << >>
       /\ pend'[c].stop = pend[c].stop + 1

\* C16: when the capture track is ended from outside while screen sharing,
\* the onended callback carries out stopScreenShare: the capture track
\* leaves the local stream and the camera is being re-acquired.
C16_EndedCaptureStopsShare == [][C16_Step]_vars

\* ---------------------------------------------------------------------
\* the step in which the camera of stopScreenShare is refused
C17_Step ==
  \A c \in Clients :
    (StopScreenShareDenied(c) /\ joined[c] /\ pend[c] = [ NoPending EXCEPT !.stop = 1 ]) =>
       /\ ~videoEnabled'[c]
       /\ videoTracks'[c] = << >>
       /\ ~screenSharing'[c]
       /\ \A e \in callsRef'[c] : \A sn \in SentBy(c, e)' :
            \A j \in 1..Len(sn) : ~tracks'[c][sn[j]].stopped

\* C17: when stopScreenShare cannot re-acquire a camera, videoEnabled is
\* false, the local stream has no video track, screenSharing is false and
\* no connection keeps sending the stopped capture track.
C17_FallbackWithoutCamera == [][C17_Step]_vars

\* ---------------------------------------------------------------------
\* toggleVideo() run while screenSharing is true
C18_Step ==
  \A c \in Clients :
    (ToggleVideo(c) /\ screenSharing[c]) =>
       LET r == StopShareStart(TRUE, localStreamRef[c], tracks[c],
                               videoTracks[c], pend[c])
       IN /\ \A t \in 1..Len(tracks[c]) : tracks'[c][t].enabled = tracks[c][t].enabled
          /\ Len(tracks'[c]) = Len(tracks[c])
          /\ pend'[c].toggle = pend[c].toggle
          /\ tracks'[c] = r.tracks /\ videoTracks'[c] = r.videoTracks
          /\ pend'[c] = r.pend
          /\ videoEnabled' = videoEnabled /\ screenSharing' = screenSharing

\* C18: toggleVideo run while screenSharing is true flips the enabled flag
\* of no track and starts no camera acquisition of its own; it does what
\* stopScreenShare does.
C18_ToggleWhileSharingStops == [][C18_Step]_vars

\* toggleVideo ran while the screen was shared: the capture track is stopped
\* and out of the local stream, and the camera of stopScreenShare is awaited
C18_Witness ==
  /\ screenSharing[MediaClient]
  /\ pend[MediaClient].stop = 1
  /\ videoTracks[MediaClient] = << >>
  /\ \E t \in 1..Len(tracks[MediaClient]) :
       tracks[MediaClient][t].kind = "screen" /\ tracks[MediaClient][t].stopped

\* ---------------------------------------------------------------------
\* the step in which the error or close handler of a connection to P runs
C19_Step ==
  \A h \in 1..Len(calls) : \A s \in {Caller, Callee} :
    (ErrorEvent(h, s) \/ CloseEvent(h, s)) =>
       LET c == calls[h].cl[s]
           P == PeerOf(calls[h], s)
       IN /\ callsRef'[c] = { e \in callsRef[c] : e[1] # P }
          /\ peers'[c] = { e \in peers[c] : e[1] # P }
          /\ \A d \in Clients \ {c} :
               callsRef'[d] = callsRef[d] /\ peers'[d] = peers[d]
          /\ joined[c] /\ joined' = joined
          /\ myId' = myId /\ reg' = reg /\ peerRef' = peerRef
          /\ UNCHANGED mediaVars
          /\ alert' = alert

\* C19: a close or error event on the connection to P removes the entry and
\* the stream of P and nothing else: the other entries and streams, the
\* joined flag, the identity and the local media state stay, and nothing is
\* reported.
C19_EvictsOnlyThatPeer == [][C19_Step]_vars

\* a connection of a joined participant failed or closed, and the
\* participant still has another entry with its stream
C19_Witness ==
  \E h \in 1..Len(calls) : \E s \in {Caller, Callee} :
    LET c == calls[h].cl[s]
    IN /\ calls[h].end[s].hd
       /\ calls[h].end[s].e \/ calls[h].end[s].x
       /\ joined[c]
       /\ ~MapHas(callsRef[c], PeerOf(calls[h], s))
       /\ \E e \in callsRef[c] : e \in peers[c]

\* ---------------------------------------------------------------------
\* the registry of the participant at end s of call h holds that end
Held(h, s) ==
  /\ h <= Len(calls)
  /\ calls[h].cl[s] # NoClient
  /\ << PeerOf(calls[h], s), << h, s >> >> \in callsRef[calls[h].cl[s]]

\* once the far end of a registered connection has closed, the entry goes
C20_Evicted ==
  \A h \in 1..(NumClients * NumClients) : \A s \in {Caller, Callee} :
    (Held(h, s) /\ calls[h].end[Other(s)].x) ~> ~Held(h, s)

\* the step in which an identity leaves the registry of a participant that
\* stays joined
C20_Step ==
  \A c \in Clients : \A id \in Ids :
    (/\ joined[c] /\ joined'[c]
     /\ MapHas(callsRef[c], id) /\ ~MapHas(callsRef'[c], id))
    => ParticipantCount(c)' = ParticipantCount(c) - 1

\* C20: when the connections of a participant close, it is eventually
\* removed from every registry that held it, and the participant count of
\* each of those participants goes down by one.
C20_ClosedPeerLeavesEverywhere == C20_Evicted /\ [][C20_Step]_vars

\* ---------------------------------------------------------------------
\* the step in which a settle timer of the Host fires
C21_Step ==
  \A t \in timers :
    SettleTimer(t) =>
       LET N == calls[t.h].from
           snapshot == MapKeys(callsRef[t.c]) \ {N}
       IN /\ snapshot = {} => msgs' = msgs
          /\ \A m \in msgs' \ msgs :
               /\ m.to = N
               /\ m.peers = snapshot
               /\ N \notin m.peers
               /\ m.peers # {}
          /\ Cardinality(msgs' \ msgs) <= 1

\* C21: the peer-list the Host sends to newcomer N when the settle delay
\* expires holds the identities of the Host's registry at that moment
\* without N, and nothing is sent when that set is empty.
C21_PeerListIsSnapshot == [][C21_Step]_vars

\* a list that leaves out its addressee is in flight, and the timer of
\* another accepted call has fired
C21_Witness ==
  /\ \E m \in msgs : m.peers # {} /\ m.to \notin m.peers
  /\ \E h \in 1..Len(calls) :
       /\ calls[h].to = Room /\ calls[h].st = "answered"
       /\ \A t \in timers : t.h # h
       /\ \A m \in msgs : m.h # h
       /\ MapKeys(callsRef[calls[h].cl[Callee]]) \ {calls[h].from} # {}

\* ---------------------------------------------------------------------
\* the identities a peer list may name: the room and the participants
\* outside the model
ListedIds == {Room} \cup RemoteIds

PeerLists == UNION { [1..n -> ListedIds] : n \in 0..MaxList }

Listed(list) == { list[i] : i \in 1..Len(list) }

\* the calls and registry r a Guest has after handling list, against the
\* calls cs and registry m it had before
C22_Handled(list, cs, m, me, r) ==
  LET placed == (Len(cs) + 1)..Len(r.calls)
  IN /\ SubSeq(r.calls, 1, Len(cs)) = cs
     /\ m \subseteq r.reg
     /\ \A h \in placed : r.calls[h].from = me /\ r.calls[h].to \in Listed(list)
     /\ \A id \in Listed(list) :
          IF MapHas(m, id)
            THEN \A h \in placed : r.calls[h].to # id
            ELSE /\ Cardinality({ h \in placed : r.calls[h].to = id }) = 1
                 /\ \E h \in placed : /\ r.calls[h].to = id
                                       /\ << id, << h, Caller >> >> \in r.reg

\* every list, repeats included, handled from the present state of a Guest
C22_AnyList ==
  \A c \in Clients :
    (joined[c] /\ myId[c] # Room) =>
       \A list \in PeerLists :
         C22_Handled(list, calls, callsRef[c], myId[c],
                     CallPeers(list, calls, callsRef[c], c, myId[c]))

\* the step in which a Guest receives a peer-list message
C22_Step ==
  \A m \in msgs :
    PeerListData(m) =>
       C22_Handled(KeyArray(m.peers), calls, callsRef[reg[m.to]], m.to,
                   [ calls |-> calls', reg |-> callsRef'[reg[m.to]] ])

\* C22: a Guest that receives a peer list places exactly one registered
\* outbound call to each listed identity that has no registry entry, and no
\* call to a listed identity that has one, also when the list repeats it.
C22_OneCallPerNewIdentity == []C22_AnyList /\ [][C22_Step]_vars

\* a Guest has handled its list: it holds the call it placed to an identity
\* the list named, registered under that identity
C22_Witness ==
  \E c \in Clients :
    /\ joined[c] /\ myId[c] # Room
    /\ \A m \in msgs : m.to # myId[c]
    /\ \E e \in callsRef[c] :
         /\ e[1] # Room /\ e[2][2] = Caller
         /\ calls[e[2][1]].to = e[1]
         /\ calls[e[2][1]].from = myId[c]

\* ---------------------------------------------------------------------
\* no two lists for one newcomer are in flight or undelivered
C23_OneListPerNewcomer ==
  \A m1, m2 \in msgs : m1.to = m2.to => m1 = m2

\* only a settle timer sends a list, one per expiry, and not to a newcomer
\* that has a list outstanding
C23_Step ==
  /\ msgs' \subseteq msgs \/ \E t \in timers : SettleTimer(t)
  /\ \A m \in msgs' \ msgs : \A m0 \in msgs : m0.to # m.to

\* C23: during a session the Host sends at most one peer list to a newcomer
\* identity, however often that newcomer's call event arrives, and sends no
\* list again.
C23_PushOnce == []C23_OneListPerNewcomer /\ [][C23_Step]_vars

\* ---------------------------------------------------------------------
\* calls h1 and h2 were placed by two participants to each other
Mutual(h1, h2) ==
  /\ calls[h1].from = calls[h2].to
  /\ calls[h1].to = calls[h2].from
  /\ calls[h1].from # calls[h1].to

\* participant c holds exactly one registry entry for identity id
OneEntryFor(c, id) == Cardinality({ e \in callsRef[c] : e[1] = id }) = 1

\* C24: two guests that called each other before either inbound call
\* arrived each hold one registry entry for the other, and the two inbound
\* calls are not both ignored, which would leave both outbound calls
\* unanswered and the pair without each other's stream.
C24_MutualCallsConnect ==
  \A h1, h2 \in 1..Len(calls) :
    (Mutual(h1, h2) /\ calls[h1].st # "offered" /\ calls[h2].st # "offered") =>
       /\ OneEntryFor(calls[h1].cl[Caller], calls[h1].to)
       /\ OneEntryFor(calls[h2].cl[Caller], calls[h2].to)
       /\ ~(calls[h1].st = "ignored" /\ calls[h2].st = "ignored")

\* ---------------------------------------------------------------------
\* C25: a participant in the Host role places no media call: no call is
\* placed under the room identity, every connection in the Host's registry
\* is the answering end of a call a Guest placed to the room, and a
\* signaling channel goes only to the caller of a call the Host has received.
C25_HostNeverCalls ==
  /\ \A h \in 1..Len(calls) : calls[h].from # Room
  /\ \A c \in Clients :
       reg[Room] = c =>
          \A e \in callsRef[c] :
            /\ e[2][2] = Callee
            /\ calls[e[2][1]].to = Room
            /\ calls[e[2][1]].from = e[1]
  /\ \A m \in msgs :
       /\ calls[m.h].to = Room
       /\ calls[m.h].st # "offered"
       /\ m.to = calls[m.h].from

\* ---------------------------------------------------------------------
\* the step in which a display-capture acquisition of startScreenShare fails
C26_Step ==
  \A c \in Clients :
    StartScreenShareDenied(c) =>
       /\ screenSharing' = screenSharing
       /\ videoEnabled' = videoEnabled
       /\ localStream' = localStream
       /\ localStreamRef' = localStreamRef
       /\ tracks' = tracks
       /\ videoTracks' = videoTracks
       /\ senders' = senders
       /\ alert' = alert

\* C26: a display-capture acquisition that fails or is cancelled leaves
\* screenSharing, the camera flag, the tracks of the local stream and the
\* outbound track of every connection as they were and shows no error.
C26_CancelledShareIsNoOp == [][C26_Step]_vars

\* a participant with a connection had its one acquisition failure in
\* startScreenShare: nothing is pending, it is not sharing and was shown no
\* error
C26_Witness ==
  /\ faults = 1
  /\ joined[MediaClient]
  /\ pend[MediaClient] = NoPending
  /\ ~screenSharing[MediaClient]
  /\ alert[MediaClient][2] = "none"
  /\ senders[MediaClient] # {}

\* ---------------------------------------------------------------------
\* the continuation of an acquisition of client c runs in this step
Completion(c) ==
  \/ ToggleVideoGranted(c)
  \/ StartScreenShareGranted(c)
  \/ StopScreenShareGranted(c)

\* a completion that arrives after leave changes no local media state
C27_Step ==
  \A c \in Clients :
    (Left(c) /\ ~joined[c] /\ pc[c] = "idle" /\ Completion(c)) =>
       /\ videoEnabled'[c] = FALSE
       /\ screenSharing'[c] = FALSE
       /\ localStream' = localStream
       /\ tracks' = tracks
       /\ videoTracks' = videoTracks
       /\ senders' = senders

\* C27: when leave() runs while a camera or display-capture acquisition is
\* pending, the completion of that acquisition changes no local media
\* state: the camera and sharing flags stay false, no track is added to the
\* local stream and no connection's track is replaced.
C27_CompletionAfterLeaveIsNoOp == [][C27_Step]_vars

\* ---------------------------------------------------------------------
\* a close or error event of one connection handle keeps every registry
\* entry that holds another handle
C28_Step ==
  \A h \in 1..Len(calls), s \in {Caller, Callee} :
    (ErrorEvent(h, s) \/ CloseEvent(h, s)) =>
       \A e \in callsRef[calls[h].cl[s]] :
         e[2] # << h, s >> => e \in callsRef'[calls[h].cl[s]]

\* C28: a registry entry is evicted only by a close or error event of the
\* connection handle it holds; a late event of an earlier handle of the same
\* identity does not evict the entry of the newer connection.
C28_EvictedByOwnHandleOnly == [][C28_Step]_vars

\* ---------------------------------------------------------------------
\* C30: screenSharing is true only while the video track of the local stream
\* is a display-capture track that has neither ended nor been stopped; with
\* no video track in the local stream screenSharing is false.  Stated for
\* the states in which no acquisition is pending.
C30_SharingMeansLiveCapture ==
  \A c \in Clients :
    (screenSharing[c] /\ pend[c] = NoPending) =>
       /\ Len(videoTracks[c]) > 0
       /\ tracks[c][videoTracks[c][1]].kind = "screen"
       /\ ~tracks[c][videoTracks[c][1]].stopped

\* ---------------------------------------------------------------------
\* the identities registered to client c
RegisteredTo(c) == { i \in Ids : reg[i] = c }

\* C29: a client holds at most one identity registration: a join started
\* while an earlier join is in progress creates no second registration, and
\* the client never calls a registration of its own.
C29_OneRegistration ==
  \A c \in Clients :
    /\ Cardinality(RegisteredTo(c)) <= 1
    /\ \A h \in 1..Len(calls) :
         calls[h].cl[Caller] = c => reg[calls[h].to] # c

\* ---------------------------------------------------------------------
\* the participant has left and no join of it is in progress
Away(c) ==
  /\ sess[c] > 0
  /\ ~joined[c]
  /\ pc[c] = "idle" /\ pc2[c][1] = "idle"
  /\ effects[c] # << >>

\* the calls placed by client c
PlacedBy(c) == { h \in 1..Len(calls) : calls[h].cl[Caller] = c }

\* the peer lists in flight that client c sent as Host
ListsOf(c) == { m \in msgs : calls[m.h].cl[Callee] = c }

\* a step between leave and the next join adds no entry, places no call and
\* sends no peer list
C31_Step ==
  \A c \in Clients :
    (Away(c) /\ Away(c)') =>
       /\ callsRef'[c] = {} /\ peers'[c] = {}
       /\ PlacedBy(c)' = PlacedBy(c)
       /\ ListsOf(c)' \subseteq ListsOf(c)

\* C31: from leave() to the next join the registry and the map of remote
\* streams are empty, and no connection event, settle timer or peer-list
\* message handled in between adds an entry, places a call or sends a list.
C31_EmptyAfterLeave ==
  /\ [](\A c \in Clients : Away(c) => callsRef[c] = {} /\ peers[c] = {})
  /\ [][C31_Step]_vars

=============================================================================
